---------------------------- MODULE Spec2Model ----------------------------
(***************************************************************************)
(* Model of two assurance checks of the PNT integrity library:             *)
(*   PositionJumpCheck   (src/.../PositionJumpCheck.cpp)                   *)
(*   AngleOfArrivalCheck (src/.../AngleOfArrivalCheck.cpp)                 *)
(* together with the state they inherit from AssuranceCheck.               *)
(*                                                                         *)
(* Representation of C++ doubles.  Times are counted in ticks of           *)
(* 1/TicksPerSec second, distances in metres, velocities in metres per     *)
(* tick.  Fractions (thresholds, percentages) are rationals over the       *)
(* denominator ThreshDen.  A double that can be NaN is a record            *)
(* [nan |-> BOOLEAN, v |-> Int].                                           *)
(***************************************************************************)
EXTENDS Integers, Sequences, FiniteSets, TLC

(***************************************************************************)
(* data::AssuranceLevel, in the order of the enumeration.                  *)
(***************************************************************************)
Unavailable == 0
Assured == 1
Inconsistent == 2
Unassured == 3
Levels == {Unavailable, Assured, Inconsistent, Unassured}

(***************************************************************************)
(* Bounds of the model.                                                    *)
(***************************************************************************)
MaxSec == 1
MaxAccum == 20
MaxRoot == 64
MaxPrn == 3
MaxCyclePrn == 2
ThreshDen == 4

TicksPerSec == 2
NanosPerSec == 1000000000
RcvrStdDevLimit == 30

Threads == {1, 2}

Max(a, b) == IF a < b THEN b ELSE a
Abs(x) == IF x < 0 THEN -x ELSE x
\* sqrt on the perfect squares the model feeds it
Sqrt(x) == CHOOSE r \in 0..MaxRoot : r * r = x

NaN == [nan |-> TRUE, v |-> 0]
Num(x) == [nan |-> FALSE, v |-> x]

(***************************************************************************)
(* Inputs.                                                                 *)
(***************************************************************************)
\* header.timestampValid
Timestamps == [sec : 0..MaxSec, nanoseconds : {0, NanosPerSec \div TicksPerSec}]
\* (double)sec + ((double)nanoseconds) / 1e9, in ticks
ToTime(ts) == ts.sec * TicksPerSec + (ts.nanoseconds * TicksPerSec) \div NanosPerSec
\* a double time argument, in ticks
Times == 0..(MaxSec * TicksPerSec + 1)

\* positions on the local plane, <<north, east>> in metres
PosSteps == {0, 4, 10}
Positions == {<<3 * k, 4 * k>> : k \in PosSteps}

\* 3x3 covariance matrices, by their diagonal
Diag(a, b, c) == <<<<a, 0, 0>>, <<0, b, 0>>, <<0, 0, c>>>>
ZeroCovariance == Diag(0, 0, 0)
RcvrCovariances == {Diag(36, 64, 1), Diag(441, 784, 1)}
EstCovariances ==
  {ZeroCovariance, Diag(144, 256, 4), Diag(36, 64, 4), Diag(4, 0, 4)}

PositionVelocities ==
  [header : Timestamps, position : Positions, covariance : RcvrCovariances]
EstimatedPvs ==
  [header : Timestamps, position : Positions, covariance : EstCovariances]
DefaultPv ==
  [header |-> [sec |-> 0, nanoseconds |-> 0], position |-> <<0, 0>>,
   covariance |-> ZeroCovariance]

DistanceIncrements == {8, 12}

(***************************************************************************)
(* State.                                                                  *)
(***************************************************************************)
VARIABLES
  \* AssuranceCheck
  assuranceLevel,
  lastAssuranceUpdate_,
  lastKnownGoodSet_,
  lastKnownGoodPosition_,
  lastKnownGoodPositionTime_,
  publishDiagnostics_,
  \* PositionJumpCheck
  useDistTraveled_,
  useEstimatedPv_,
  minimumBound_,
  maximumVelocity_,
  posStdDevMultiplier_,
  positionJumpBound_,
  distanceTraveled_,
  distanceTraveledReceived_,
  distanceToLastGoodPos_,
  lastReceiverPv_,
  currentEstimatedPosition_,
  currentEstPositionSet_,
  currentEstPosCovariance_,
  geodeticConverter_,
  \* AngleOfArrivalCheck
  assuranceLevelPeriod_,
  curGnssObsTimeOfWeek_,
  prnAssuranceLevels_,
  lastDiffPublishTime_,
  lastDiagPublishTime_,
  aoaCheckData_,
  prnCountThresh_,
  rangeThreshold_,
  singleDiffCompareThresh_,
  singleDiffCompareFailureLimit_,
  assuranceUnassuredThresh_,
  assuranceInconsistentThresh_,
  assuranceAssuredThresh_,
  publishSingleDiffData_,
  \* arguments of a function applied on its own
  args,
  \* callers
  pc,
  callArg,
  out

baseVars ==
  <<assuranceLevel, lastAssuranceUpdate_, lastKnownGoodSet_,
    lastKnownGoodPosition_, lastKnownGoodPositionTime_, publishDiagnostics_>>
pjConfigVars ==
  <<useDistTraveled_, useEstimatedPv_, minimumBound_, maximumVelocity_,
    posStdDevMultiplier_>>
pjEstVars ==
  <<currentEstimatedPosition_, currentEstPositionSet_,
    currentEstPosCovariance_, geodeticConverter_>>
pjVars ==
  <<pjConfigVars, positionJumpBound_, distanceTraveled_,
    distanceTraveledReceived_, distanceToLastGoodPos_, lastReceiverPv_,
    pjEstVars>>
aoaConfigVars ==
  <<assuranceLevelPeriod_, aoaCheckData_, prnCountThresh_, rangeThreshold_,
    singleDiffCompareThresh_, singleDiffCompareFailureLimit_,
    assuranceUnassuredThresh_, assuranceInconsistentThresh_,
    assuranceAssuredThresh_, publishSingleDiffData_>>
aoaVars ==
  <<aoaConfigVars, curGnssObsTimeOfWeek_, prnAssuranceLevels_,
    lastDiffPublishTime_, lastDiagPublishTime_, args>>
callVars == <<pc, callArg>>
vars == <<baseVars, pjVars, aoaVars, callVars, out>>

(***************************************************************************)
(* What the most recent step returned and published.                       *)
(***************************************************************************)
NoDiag == <<>>
NoCycle == <<>>
OutOf(op, t, ret, diag, cycle) ==
  [op |-> op, thread |-> t, ret |-> ret, diag |-> diag, cycle |-> cycle]
Out(op, t, ret, diag) == OutOf(op, t, ret, diag, NoCycle)

(***************************************************************************)
(* AssuranceCheck.                                                         *)
(***************************************************************************)
\* the level and decision time after changeAssuranceLevel(time, level)
changeAssuranceLevel(time, level) == [level |-> level, time |-> time]

calculateDistance(a, b) ==
  Sqrt((a[1] - b[1]) * (a[1] - b[1]) + (a[2] - b[2]) * (a[2] - b[2]))

checkDistance(distance, bound) == distance > bound

\* GeodeticConverter::geodetic2Ned with reference ref: <<north, east>>
geodetic2Ned(ref, p) == <<p[1] - ref[1], p[2] - ref[2]>>

(***************************************************************************)
(* PositionJumpCheck.                                                      *)
(***************************************************************************)
PjModes == {<<FALSE, FALSE>>, <<TRUE, FALSE>>, <<FALSE, TRUE>>}

\* the fields of the other check, which a PositionJumpCheck does not have
AoaUnused ==
  /\ assuranceLevelPeriod_ = 0
  /\ curGnssObsTimeOfWeek_ = 0
  /\ prnAssuranceLevels_ = <<>>
  /\ lastDiffPublishTime_ = 0
  /\ lastDiagPublishTime_ = 0
  /\ aoaCheckData_ = "UsePseudorange"
  /\ prnCountThresh_ = 1
  /\ rangeThreshold_ = 0
  /\ singleDiffCompareThresh_ = 0
  /\ singleDiffCompareFailureLimit_ = 0
  /\ assuranceUnassuredThresh_ = 0
  /\ assuranceInconsistentThresh_ = 0
  /\ assuranceAssuredThresh_ = 0
  /\ publishSingleDiffData_ = FALSE
  /\ args = <<>>

PjInit ==
  /\ assuranceLevel = Unavailable
  /\ lastAssuranceUpdate_ = 0
  /\ lastKnownGoodSet_ = FALSE
  /\ lastKnownGoodPosition_ = <<0, 0>>
  /\ lastKnownGoodPositionTime_ = 0
  /\ publishDiagnostics_ \in BOOLEAN
  /\ \E m \in PjModes : useDistTraveled_ = m[1] /\ useEstimatedPv_ = m[2]
  /\ minimumBound_ = 5
  /\ maximumVelocity_ = 10
  /\ posStdDevMultiplier_ = 2
  /\ positionJumpBound_ = minimumBound_
  /\ distanceTraveled_ = 0
  /\ distanceTraveledReceived_ = FALSE
  /\ distanceToLastGoodPos_ = 0
  /\ lastReceiverPv_ = DefaultPv
  /\ currentEstimatedPosition_ = <<0, 0>>
  /\ currentEstPositionSet_ = FALSE
  /\ currentEstPosCovariance_ = ZeroCovariance
  /\ geodeticConverter_ = <<0, 0>>
  /\ AoaUnused
  /\ pc = [t \in Threads |-> "idle"]
  /\ callArg = [t \in Threads |-> DefaultPv]
  /\ out = Out("init", 0, TRUE, NoDiag)

\* updateBound(): the bound it leaves, given the accumulated distance
updateBoundAnyMode(bound, distance) == Max(minimumBound_, distance)

updateBound(bound, distance) ==
  IF useDistTraveled_ THEN Max(minimumBound_, distance) ELSE bound

\* updateBound(updateTime): the bound it leaves
updateBoundTimeNoMax(bound, updateTime) ==
  IF ~useDistTraveled_
    THEN maximumVelocity_ * (updateTime - lastKnownGoodPositionTime_)
    ELSE bound

updateBoundTime(bound, updateTime) ==
  IF ~useDistTraveled_
    THEN LET dt == updateTime - lastKnownGoodPositionTime_
         IN  Max(minimumBound_, maximumVelocity_ * dt)
    ELSE bound

\* runCheck(), platform mode: updateBound(updateTime) before the comparison
platformBoundStale(bound, updateTime) == bound

platformBound(bound, updateTime) == updateBoundTime(bound, updateTime)

\* runCheck(): the level for a distance to the last known good position
jumpLevel(distance, bound) ==
  IF checkDistance(distance, bound) THEN Unassured ELSE Assured

\* runCheck(): the level for a distance to the estimated position
estimatedLevelAtBound(distance, bound, rcvrStdDev) ==
  IF distance >= bound /\ rcvrStdDev > RcvrStdDevLimit THEN Inconsistent
  ELSE IF distance >= bound THEN Unassured
  ELSE Assured

estimatedLevel(distance, bound, rcvrStdDev) ==
  LET positionJump == checkDistance(distance, bound)
  IN  IF positionJump /\ rcvrStdDev > RcvrStdDevLimit THEN Inconsistent
      ELSE IF positionJump THEN Unassured
      ELSE Assured

\* runCheck(): the state it leaves, what it returns and what it publishes
runCheck ==
  LET updateTime == ToTime(lastReceiverPv_.header)
      sec == lastReceiverPv_.header.sec * TicksPerSec
      platform == (~useDistTraveled_) /\ (~useEstimatedPv_)
      received == IF platform THEN TRUE ELSE distanceTraveledReceived_
      bound1 == IF platform
                  THEN platformBound(positionJumpBound_, updateTime)
                  ELSE positionJumpBound_
  IN
  IF (~useEstimatedPv_) /\ lastKnownGoodSet_ /\ received
    THEN
      LET d == calculateDistance(lastReceiverPv_.position,
                                 lastKnownGoodPosition_)
      IN  [change |-> changeAssuranceLevel(sec, jumpLevel(d, bound1)),
           bound |-> bound1,
           distanceToLastGoodPos |-> d,
           received |-> received,
           retVal |-> TRUE,
           time |-> updateTime,
           diagnostics |-> [distance |-> Num(d), bound |-> Num(bound1)]]
    ELSE IF useEstimatedPv_ /\ currentEstPositionSet_
    THEN
      LET ned == geodetic2Ned(geodeticConverter_, lastReceiverPv_.position)
          distance == Sqrt(ned[1] * ned[1] + ned[2] * ned[2])
          covN == currentEstPosCovariance_[1][1]
          covE == currentEstPosCovariance_[2][2]
          covarianceBound == posStdDevMultiplier_ * Sqrt(covN + covE)
          bound2 == Max(minimumBound_, covarianceBound)
          rcvrStdDev == Sqrt(lastReceiverPv_.covariance[1][1]
                             + lastReceiverPv_.covariance[2][2])
      IN  [change |-> changeAssuranceLevel(sec,
                        estimatedLevel(distance, bound2, rcvrStdDev)),
           bound |-> bound2,
           distanceToLastGoodPos |-> distanceToLastGoodPos_,
           received |-> received,
           retVal |-> TRUE,
           time |-> updateTime,
           diagnostics |-> [distance |-> Num(distance), bound |-> Num(bound2)]]
    ELSE
      [change |-> changeAssuranceLevel(sec, Unavailable),
       bound |-> bound1,
       distanceToLastGoodPos |-> distanceToLastGoodPos_,
       received |-> received,
       retVal |-> FALSE,
       time |-> updateTime,
       diagnostics |-> [distance |-> NaN, bound |-> NaN]]

\* handleEstimatedPositionVelocity(pv)
HandleEstimatedPositionVelocity(pv) ==
  /\ IF useEstimatedPv_ /\ pv.covariance[1][1] # 0
       THEN /\ currentEstimatedPosition_' = pv.position
            /\ currentEstPositionSet_' = TRUE
            /\ currentEstPosCovariance_' = pv.covariance
            /\ geodeticConverter_' = pv.position
       ELSE UNCHANGED pjEstVars
  /\ out' = OutOf("handleEstimatedPositionVelocity", 0, TRUE, NoDiag,
                  [pv |-> pv])
  /\ UNCHANGED <<aoaVars, baseVars, pjConfigVars, positionJumpBound_, distanceTraveled_,
                 distanceTraveledReceived_, distanceToLastGoodPos_,
                 lastReceiverPv_, callVars>>

\* handlePositionVelocity(posVel, false)
HandleRemoteRecorded(t, posVel) ==
  /\ pc[t] = "idle"
  /\ lastReceiverPv_' = posVel
  /\ out' = OutOf("handlePositionVelocity", t, TRUE, NoDiag,
                  [posVel |-> posVel])
  /\ UNCHANGED <<aoaVars, baseVars, pjConfigVars, positionJumpBound_,
                 distanceTraveled_, distanceTraveledReceived_,
                 distanceToLastGoodPos_, pjEstVars, callVars>>

HandleRemotePositionVelocity(t, posVel) ==
  /\ pc[t] = "idle"
  /\ out' = OutOf("handlePositionVelocity", t, TRUE, NoDiag,
                  [posVel |-> posVel])
  /\ UNCHANGED <<aoaVars, baseVars, pjVars, callVars>>

\* handlePositionVelocity(posVel, true), to the release of the first lock
RecordPositionVelocity(t, posVel) ==
  /\ pc[t] = "idle"
  /\ lastReceiverPv_' = posVel
  /\ pc' = [pc EXCEPT ![t] = "runCheck"]
  /\ callArg' = [callArg EXCEPT ![t] = posVel]
  /\ out' = Out("lastReceiverPv_", t, TRUE, NoDiag)
  /\ UNCHANGED <<aoaVars, baseVars, pjConfigVars, positionJumpBound_, distanceTraveled_,
                 distanceTraveledReceived_, distanceToLastGoodPos_, pjEstVars>>

\* runCheck(): what it hands to the diagnostics sink
publishDecisionsOnly(r) ==
  IF publishDiagnostics_ /\ r.retVal
    THEN <<[time |-> r.time, diagnostics |-> r.diagnostics]>>
    ELSE NoDiag

publish(r) ==
  IF publishDiagnostics_
    THEN <<[time |-> r.time, diagnostics |-> r.diagnostics]>>
    ELSE NoDiag

\* handlePositionVelocity(posVel, true), its call of runCheck()
RunCheck(t) ==
  /\ pc[t] = "runCheck"
  /\ LET r == runCheck
     IN  /\ assuranceLevel' = r.change.level
         /\ lastAssuranceUpdate_' = r.change.time
         /\ positionJumpBound_' = r.bound
         /\ distanceToLastGoodPos_' = r.distanceToLastGoodPos
         /\ distanceTraveledReceived_' = r.received
         /\ out' = Out("runCheck", t, r.retVal, publish(r))
  /\ pc' = [pc EXCEPT ![t] = "idle"]
  /\ UNCHANGED <<aoaVars, lastKnownGoodSet_, lastKnownGoodPosition_,
                 lastKnownGoodPositionTime_, publishDiagnostics_,
                 pjConfigVars, distanceTraveled_, lastReceiverPv_, pjEstVars,
                 callArg>>

\* setLastGoodPosition: the bound it leaves
resetBoundAllModes(bound) == minimumBound_

resetBound(bound) == IF useDistTraveled_ THEN minimumBound_ ELSE bound

\* setLastGoodPosition(updateTime, position)
SetLastGoodPosition(updateTime, position) ==
  /\ lastKnownGoodSet_' = TRUE
  /\ lastKnownGoodPosition_' = position
  /\ lastKnownGoodPositionTime_' = updateTime
  /\ distanceTraveled_' = 0
  /\ positionJumpBound_' = resetBound(positionJumpBound_)
  /\ out' = OutOf("setLastGoodPosition", 0, TRUE, NoDiag,
                  [updateTime |-> updateTime, position |-> position])
  /\ UNCHANGED <<aoaVars, assuranceLevel, lastAssuranceUpdate_, publishDiagnostics_,
                 pjConfigVars, distanceTraveledReceived_,
                 distanceToLastGoodPos_, lastReceiverPv_, pjEstVars, callVars>>

\* updateBound()
UpdateBound ==
  /\ positionJumpBound_' = updateBound(positionJumpBound_, distanceTraveled_)
  /\ out' = OutOf("updateBound", 0, TRUE, NoDiag,
                  [error |-> ~useDistTraveled_])
  /\ UNCHANGED <<aoaVars, baseVars, pjConfigVars, distanceTraveled_,
                 distanceTraveledReceived_, distanceToLastGoodPos_,
                 lastReceiverPv_, pjEstVars, callVars>>

\* updateBound(updateTime)
UpdateBoundTime(updateTime) ==
  /\ positionJumpBound_' = updateBoundTime(positionJumpBound_, updateTime)
  /\ out' = OutOf("updateBoundTime", 0, TRUE, NoDiag,
                  [error |-> useDistTraveled_])
  /\ UNCHANGED <<aoaVars, baseVars, pjConfigVars, distanceTraveled_,
                 distanceTraveledReceived_, distanceToLastGoodPos_,
                 lastReceiverPv_, pjEstVars, callVars>>

\* handleDistanceTraveled(distance): accumulate, then updateBound()
HandleDistanceTraveled(distance) ==
  /\ distanceTraveled_ + distance <= MaxAccum
  /\ distanceTraveled_' = distanceTraveled_ + distance
  /\ distanceTraveledReceived_' = TRUE
  /\ positionJumpBound_' =
       updateBound(positionJumpBound_, distanceTraveled_ + distance)
  /\ out' = Out("handleDistanceTraveled", 0, TRUE, NoDiag)
  /\ UNCHANGED <<aoaVars, baseVars, pjConfigVars, distanceToLastGoodPos_,
                 lastReceiverPv_, pjEstVars, callVars>>

\* the arguments the callers pass: every value of what the configured mode
\* reads, one value of what it never reads (in estimated-PV mode two
\* estimated positions and no distance increment)
Platform == (~useDistTraveled_) /\ (~useEstimatedPv_)
ReceiverPvs ==
  {pv \in PositionVelocities :
     IF useEstimatedPv_ THEN pv.header.nanoseconds = 0
                        ELSE pv.covariance = Diag(36, 64, 1)}
RemotePvs == {pv \in PositionVelocities : pv.header.nanoseconds = 0
                /\ pv.position = <<0, 0>> /\ pv.covariance = Diag(36, 64, 1)}
EstimatedInputs ==
  {pv \in EstimatedPvs :
     /\ pv.header = [sec |-> 0, nanoseconds |-> 0]
     /\ IF useEstimatedPv_
          THEN pv.position \in {<<0, 0>>, <<12, 16>>}
          ELSE pv.position = <<0, 0>> /\ pv.covariance = Diag(144, 256, 4)}
GoodTimes == IF Platform THEN {sec * TicksPerSec : sec \in 0..MaxSec} ELSE {0}
BoundTimes == {0, MaxSec * TicksPerSec + 1}
GoodPositions == IF useEstimatedPv_ THEN {<<0, 0>>} ELSE Positions
Increments ==
  IF useDistTraveled_ THEN DistanceIncrements
  ELSE IF Platform THEN {12}
  ELSE {}

\* the calls that take the lock for their whole body
PjCall ==
  \/ \E pv \in EstimatedInputs : HandleEstimatedPositionVelocity(pv)
  \/ \E time \in GoodTimes, position \in GoodPositions :
       SetLastGoodPosition(time, position)
  \/ UpdateBound
  \/ \E time \in BoundTimes : UpdateBoundTime(time)
  \/ \E d \in Increments : HandleDistanceTraveled(d)

\* one caller at a time
PjNext ==
  \/ PjCall
  \/ \E posVel \in RemotePvs : HandleRemotePositionVelocity(1, posVel)
  \/ \E posVel \in ReceiverPvs : RecordPositionVelocity(1, posVel)
  \/ RunCheck(1)

SpecPj == PjInit /\ [][PjNext]_vars

\* several callers of handlePositionVelocity on one instance
ConcurrentPvs ==
  {pv \in PositionVelocities :
     pv.header.nanoseconds = 0 /\ pv.covariance = Diag(36, 64, 1)}

PjConcurrentNext ==
  \/ \E t \in Threads, posVel \in ConcurrentPvs :
       RecordPositionVelocity(t, posVel)
  \/ \E t \in Threads : RunCheck(t)
  \/ \E position \in Positions : SetLastGoodPosition(0, position)

SpecPjConcurrent == PjInit /\ [][PjConcurrentNext]_vars

(***************************************************************************)
(* Properties of PositionJumpCheck.                                        *)
(***************************************************************************)

\* C3: in every reachable state, in each of the three modes, the position
\* jump bound is at least the configured minimum bound and is not negative.
BoundAtLeastMinimum ==
  /\ positionJumpBound_ >= minimumBound_
  /\ positionJumpBound_ >= 0

\* C3 witness: platform mode, runCheck has just propagated the bound over a
\* negative elapsed time
BoundAtLeastMinimumWitness ==
  /\ out.op = "runCheck"
  /\ Platform
  /\ lastKnownGoodSet_
  /\ ToTime(lastReceiverPv_.header) < lastKnownGoodPositionTime_
  /\ positionJumpBound_ = minimumBound_

\* C4: a level transition is never applied with a time older than the
\* decision time recorded so far.
TransitionTimesMonotonic ==
  [][lastAssuranceUpdate_' >= lastAssuranceUpdate_]_vars

\* C5: each evaluation cycle classifies the position its own call recorded.
EachCycleEvaluatesOwnPosition ==
  out.op = "runCheck" => lastReceiverPv_ = callArg[out.thread]

\* C10: in platform and distance-traveled mode, with a last known good
\* position (and, in distance-traveled mode, distance data received) runCheck
\* returns true and sets Unassured exactly when the distance from the latest
\* receiver position to the last known good position exceeds
\* max(minimumBound, maxVelocity * elapsed) resp. max(minimumBound,
\* accumulated distance), and Assured otherwise; without them it sets
\* Unavailable and returns false.
ExpectedBound ==
  IF Platform
    THEN Max(minimumBound_,
             maximumVelocity_
               * (ToTime(lastReceiverPv_.header) - lastKnownGoodPositionTime_))
    ELSE Max(minimumBound_, distanceTraveled_)

JumpClassification ==
  [][(out'.op = "runCheck" /\ ~useEstimatedPv_) =>
       IF lastKnownGoodSet_ /\ (Platform \/ distanceTraveledReceived_)
         THEN /\ out'.ret = TRUE
              /\ positionJumpBound_' = ExpectedBound
              /\ (calculateDistance(lastReceiverPv_.position,
                                    lastKnownGoodPosition_) > ExpectedBound
                    => assuranceLevel' = Unassured)
              /\ (calculateDistance(lastReceiverPv_.position,
                                    lastKnownGoodPosition_) <= ExpectedBound
                    => assuranceLevel' = Assured)
         ELSE /\ out'.ret = FALSE
              /\ assuranceLevel' = Unavailable]_vars

\* C10 witness: distance-traveled mode, minimumBound = 5, accumulated
\* distance 12, distance to the last good position 20: Unassured
JumpClassificationWitness ==
  /\ out.op = "runCheck"
  /\ out.ret = TRUE
  /\ useDistTraveled_
  /\ minimumBound_ = 5
  /\ distanceTraveled_ = 12
  /\ positionJumpBound_ = 12
  /\ calculateDistance(lastReceiverPv_.position, lastKnownGoodPosition_) = 20
  /\ assuranceLevel = Unassured

(***************************************************************************)
(* AngleOfArrivalCheck.                                                    *)
(*                                                                         *)
(* A std::map keyed by PRN is a function on the set of its keys.  The      *)
(* votes of a cycle (PrnAssuranceEachNode) are a function on all PRNs to   *)
(* sequences of levels; a PRN is a key of the std::map exactly when its    *)
(* sequence is not empty, since a key is only ever made by push_back.      *)
(***************************************************************************)
Prns == 1..MaxPrn
NoVotes == [p \in Prns |-> <<>>]
VoteKeys(votes) == {p \in Prns : votes[p] # <<>>}

\* the keys of a std::map in iteration order
RECURSIVE SortedKeys(_)
SortedKeys(S) ==
  IF S = {} THEN <<>>
  ELSE LET m == CHOOSE x \in S : \A y \in S : x <= y
       IN  <<m>> \o SortedKeys(S \ {m})

Reverse(q) == [i \in 1..Len(q) |-> q[Len(q) + 1 - i]]

\* (double)n / (double)d: NaN for 0/0
Frac(n, d) == [nan |-> d = 0, num |-> n, den |-> d]
\* f >= thr / ThreshDen and f > thr / ThreshDen; a comparison with NaN is false
FracGe(f, thr) == (~f.nan) /\ f.num * ThreshDen >= thr * f.den
FracGt(f, thr) == (~f.nan) /\ f.num * ThreshDen > thr * f.den

\* nestedForLoopComparison: the inner loop for PRN p over the keys left
RECURSIVE compareLoopWithSelf(_, _, _, _)
compareLoopWithSelf(diffMap, p, keys, count) ==
  IF keys = <<>> THEN count
  ELSE LET q == Head(keys)
           singleDiffDiff == Abs(diffMap[p] - diffMap[q])
       IN  compareLoopWithSelf(diffMap, p, Tail(keys),
             [failCount |-> count.failCount
                             + (IF singleDiffDiff < singleDiffCompareThresh_
                                  THEN 1 ELSE 0),
              totalCount |-> count.totalCount + 1])

RECURSIVE compareLoop(_, _, _, _)
compareLoop(diffMap, p, keys, count) ==
  IF keys = <<>> THEN count
  ELSE LET q == Head(keys)
           singleDiffDiff == Abs(diffMap[p] - diffMap[q])
       IN  compareLoop(diffMap, p, Tail(keys),
             IF p # q
               THEN [failCount |-> count.failCount
                                     + (IF singleDiffDiff < singleDiffCompareThresh_
                                          THEN 1 ELSE 0),
                     totalCount |-> count.totalCount + 1]
               ELSE count)

\* nestedForLoopComparison: the level pushed for PRN p
nestedVoteNoCountGate(diffMap, p) ==
  LET count == compareLoop(diffMap, p, Reverse(SortedKeys(DOMAIN diffMap)),
                           [failCount |-> 0, totalCount |-> 0])
  IN  IF FracGt(Frac(count.failCount, count.totalCount),
                singleDiffCompareFailureLimit_)
        THEN Unassured ELSE Assured

nestedVote(diffMap, p) ==
  LET count == compareLoop(diffMap, p, Reverse(SortedKeys(DOMAIN diffMap)),
                           [failCount |-> 0, totalCount |-> 0])
      failPercent == Frac(count.failCount, count.totalCount)
  IN  IF count.totalCount < prnCountThresh_ - 1 THEN Unavailable
      ELSE IF FracGt(failPercent, singleDiffCompareFailureLimit_)
        THEN Unassured
      ELSE Assured

\* nestedForLoopComparison(diffMap, prnAssuranceEachNode): the votes it leaves
nestedForLoopComparison(diffMap, votes) ==
  [p \in Prns |->
     IF p \in DOMAIN diffMap THEN Append(votes[p], nestedVote(diffMap, p))
                             ELSE votes[p]]

\* std::max_element over a vector of levels
RECURSIVE maxElement(_)
maxElement(q) ==
  IF Len(q) = 1 THEN q[1]
  ELSE LET m == maxElement(Tail(q)) IN IF Head(q) < m THEN m ELSE Head(q)

\* setPrnAssuranceLevels(prnAssuranceEachNode): prnAssuranceLevels_ after it
setPrnAssuranceLevelsFirstVote(levels, votes) ==
  [p \in DOMAIN levels \cup VoteKeys(votes) |->
     IF votes[p] # <<>> THEN votes[p][1] ELSE levels[p]]

setPrnAssuranceLevelsThisCycleOnly(levels, votes) ==
  [p \in VoteKeys(votes) |-> maxElement(votes[p])]

setPrnAssuranceLevels(levels, votes) ==
  [p \in DOMAIN levels \cup VoteKeys(votes) |->
     IF votes[p] # <<>> THEN maxElement(votes[p]) ELSE levels[p]]

\* calculateAssuranceLevel: the counting loop over the keys left
RECURSIVE countLoop(_, _, _)
countLoop(levels, keys, count) ==
  IF keys = <<>> THEN count
  ELSE LET level == levels[Head(keys)]
       IN  countLoop(levels, Tail(keys),
             [totalCount |-> count.totalCount + 1,
              assuredCount |-> count.assuredCount
                                 + (IF level = Assured THEN 1 ELSE 0),
              unavailableCount |-> count.unavailableCount
                                 + (IF level # Assured /\ level = Unavailable
                                      THEN 1 ELSE 0),
              suspectCount |-> count.suspectCount
                                 + (IF level # Assured /\ level # Unavailable
                                      THEN 1 ELSE 0)])

\* calculateAssuranceLevel: the level chosen from the counts
levelFromCountsGeAssured(count) ==
  LET assuredPercent == Frac(count.assuredCount, count.totalCount)
      suspectPercent == Frac(count.suspectCount, count.totalCount)
  IN  IF count.totalCount < prnCountThresh_ - 1 THEN Unavailable
      ELSE IF FracGe(suspectPercent, assuranceUnassuredThresh_) THEN Unassured
      ELSE IF FracGe(suspectPercent, assuranceInconsistentThresh_)
        THEN Inconsistent
      ELSE IF FracGe(assuredPercent, assuranceAssuredThresh_) THEN Assured
      ELSE Unavailable

levelFromCountsInconsistentFirst(count) ==
  LET assuredPercent == Frac(count.assuredCount, count.totalCount)
      suspectPercent == Frac(count.suspectCount, count.totalCount)
  IN  IF count.totalCount < prnCountThresh_ - 1 THEN Unavailable
      ELSE IF FracGe(suspectPercent, assuranceInconsistentThresh_)
        THEN Inconsistent
      ELSE IF FracGe(suspectPercent, assuranceUnassuredThresh_) THEN Unassured
      ELSE IF FracGt(assuredPercent, assuranceAssuredThresh_) THEN Assured
      ELSE Unavailable

levelFromCounts(count) ==
  LET assuredPercent == Frac(count.assuredCount, count.totalCount)
      suspectPercent == Frac(count.suspectCount, count.totalCount)
  IN  IF count.totalCount < prnCountThresh_ - 1 THEN Unavailable
      ELSE IF FracGe(suspectPercent, assuranceUnassuredThresh_) THEN Unassured
      ELSE IF FracGe(suspectPercent, assuranceInconsistentThresh_)
        THEN Inconsistent
      ELSE IF FracGt(assuredPercent, assuranceAssuredThresh_) THEN Assured
      ELSE Unavailable

\* calculateAssuranceLevel(checkTime) on the per-PRN map levels: the
\* transition it applies and the diagnostics it hands to the sink
calculateAssuranceLevel(levels, checkTime) ==
  LET count == countLoop(levels, SortedKeys(DOMAIN levels),
                         [totalCount |-> 0, assuredCount |-> 0,
                          unavailableCount |-> 0, suspectCount |-> 0])
  IN  [change |-> changeAssuranceLevel(checkTime, levelFromCounts(count)),
       diagnostics |->
         [singleDiffThresh |-> singleDiffCompareThresh_,
          unavailablePrnPercent |->
            Frac(count.unavailableCount, count.totalCount),
          suspectPrnPercent |-> Frac(count.suspectCount, count.totalCount),
          assuredPrnPercent |-> Frac(count.assuredCount, count.totalCount),
          inconsistentThresh |-> assuranceInconsistentThresh_,
          unassuredThresh |-> assuranceUnassuredThresh_,
          assuredThresh |-> assuranceAssuredThresh_]]

\* the fields of the other check, which an AngleOfArrivalCheck does not have
PjUnused ==
  /\ useDistTraveled_ = FALSE
  /\ useEstimatedPv_ = FALSE
  /\ minimumBound_ = 0
  /\ maximumVelocity_ = 0
  /\ posStdDevMultiplier_ = 0
  /\ positionJumpBound_ = 0
  /\ distanceTraveled_ = 0
  /\ distanceTraveledReceived_ = FALSE
  /\ distanceToLastGoodPos_ = 0
  /\ lastReceiverPv_ = DefaultPv
  /\ currentEstimatedPosition_ = <<0, 0>>
  /\ currentEstPositionSet_ = FALSE
  /\ currentEstPosCovariance_ = ZeroCovariance
  /\ geodeticConverter_ = <<0, 0>>

\* an AngleOfArrivalCheck as constructed, but for its thresholds
AoaConstructed ==
  /\ assuranceLevel = Unavailable
  /\ lastAssuranceUpdate_ = 0
  /\ lastKnownGoodSet_ = FALSE
  /\ lastKnownGoodPosition_ = <<0, 0>>
  /\ lastKnownGoodPositionTime_ = 0
  /\ curGnssObsTimeOfWeek_ = 0
  /\ lastDiffPublishTime_ = 0
  /\ lastDiagPublishTime_ = 0
  /\ PjUnused
  /\ pc = [t \in Threads |-> "idle"]
  /\ callArg = [t \in Threads |-> 0]
  /\ out = Out("init", 0, TRUE, NoDiag)

(***************************************************************************)
(* calculateAssuranceLevel on its own: every per-PRN map and every         *)
(* threshold setting.                                                      *)
(***************************************************************************)
LevelMaps == UNION {[S -> Levels] : S \in SUBSET Prns}
Fractions == 0..ThreshDen

CalcInit ==
  /\ AoaConstructed
  /\ prnAssuranceLevels_ \in LevelMaps
  /\ prnCountThresh_ \in 1..MaxPrn
  /\ assuranceUnassuredThresh_ \in Fractions
  /\ assuranceInconsistentThresh_ \in Fractions
  /\ assuranceAssuredThresh_ \in Fractions
  /\ publishDiagnostics_ = TRUE
  /\ assuranceLevelPeriod_ = 0
  /\ aoaCheckData_ = "UsePseudorange"
  /\ rangeThreshold_ = 0
  /\ singleDiffCompareThresh_ = 0
  /\ singleDiffCompareFailureLimit_ = 0
  /\ publishSingleDiffData_ = FALSE
  /\ args = <<>>

\* calculateAssuranceLevel(checkTime)
CalculateAssuranceLevel(checkTime) ==
  /\ out.op = "init"
  /\ LET r == calculateAssuranceLevel(prnAssuranceLevels_, checkTime)
     IN  /\ assuranceLevel' = r.change.level
         /\ lastAssuranceUpdate_' = r.change.time
         /\ lastDiagPublishTime_' =
              IF publishDiagnostics_ THEN checkTime ELSE lastDiagPublishTime_
         /\ out' = Out("calculateAssuranceLevel", 0, TRUE,
                       IF publishDiagnostics_
                         THEN <<[time |-> checkTime,
                                 diagnostics |-> r.diagnostics]>>
                         ELSE NoDiag)
  /\ UNCHANGED <<lastKnownGoodSet_, lastKnownGoodPosition_,
                 lastKnownGoodPositionTime_, publishDiagnostics_, pjVars,
                 aoaConfigVars, curGnssObsTimeOfWeek_, prnAssuranceLevels_,
                 lastDiffPublishTime_, args, callVars>>

CalcNext == CalculateAssuranceLevel(1)

SpecCalc == CalcInit /\ [][CalcNext]_vars

\* C1: the level calculateAssuranceLevel sets is the first match of: total
\* PRN count < minimum PRN count - 1 -> Unavailable; suspect fraction >=
\* unassured threshold -> Unassured; suspect fraction >= inconsistent
\* threshold -> Inconsistent; assured fraction > assured threshold ->
\* Assured; otherwise Unavailable; suspect counts every PRN whose level is
\* neither Assured nor Unavailable.  (Fractions are compared as real numbers;
\* with no PRN in the map there is no fraction and no comparison holds.)
Total == Cardinality(DOMAIN prnAssuranceLevels_)
AssuredPrns == {p \in DOMAIN prnAssuranceLevels_ : prnAssuranceLevels_[p] = Assured}
SuspectPrns ==
  {p \in DOMAIN prnAssuranceLevels_ :
     prnAssuranceLevels_[p] \in {Inconsistent, Unassured}}
ExpectedLevel ==
  CASE Total < prnCountThresh_ - 1 -> Unavailable
    [] Total > 0 /\ Cardinality(SuspectPrns) * ThreshDen
                      >= assuranceUnassuredThresh_ * Total -> Unassured
    [] Total > 0 /\ Cardinality(SuspectPrns) * ThreshDen
                      >= assuranceInconsistentThresh_ * Total -> Inconsistent
    [] Total > 0 /\ Cardinality(AssuredPrns) * ThreshDen
                      > assuranceAssuredThresh_ * Total -> Assured
    [] OTHER -> Unavailable

AggregateClassification ==
  out.op = "calculateAssuranceLevel" => assuranceLevel = ExpectedLevel

\* C1 witness: the assured branch is reached with a suspect PRN in the map
AggregateClassificationWitness ==
  /\ out.op = "calculateAssuranceLevel"
  /\ assuranceLevel = Assured
  /\ SuspectPrns # {}
  /\ Total >= prnCountThresh_ - 1

(***************************************************************************)
(* nestedForLoopComparison on its own: every single-difference map over    *)
(* the PRNs, with votes already in the list or not.                        *)
(***************************************************************************)
DiffValues == {0, 1, 3}
DiffMaps == UNION {[S -> DiffValues] : S \in SUBSET Prns}

NestedInit ==
  /\ AoaConstructed
  /\ args \in [diffMap : DiffMaps,
               votes : {NoVotes, [p \in Prns |-> <<Inconsistent>>]}]
  /\ prnCountThresh_ \in 1..MaxPrn
  /\ singleDiffCompareThresh_ \in {1, 2, 3}
  /\ singleDiffCompareFailureLimit_ \in Fractions
  /\ prnAssuranceLevels_ = <<>>
  /\ assuranceUnassuredThresh_ = 0
  /\ assuranceInconsistentThresh_ = 0
  /\ assuranceAssuredThresh_ = 0
  /\ publishDiagnostics_ = FALSE
  /\ assuranceLevelPeriod_ = 0
  /\ aoaCheckData_ = "UsePseudorange"
  /\ rangeThreshold_ = 0
  /\ publishSingleDiffData_ = FALSE

\* nestedForLoopComparison: failCount and totalCount of each PRN of the map
\* when its inner loop ends
comparisonCounts(diffMap) ==
  [p \in DOMAIN diffMap |->
     compareLoop(diffMap, p, Reverse(SortedKeys(DOMAIN diffMap)),
                 [failCount |-> 0, totalCount |-> 0])]

\* nestedForLoopComparison(diffMap, prnAssuranceEachNode)
NestedForLoopComparison ==
  /\ out.op = "init"
  /\ out' = OutOf("nestedForLoopComparison", 0, TRUE, NoDiag,
                  [votes |-> nestedForLoopComparison(args.diffMap, args.votes),
                   counts |-> comparisonCounts(args.diffMap)])
  /\ UNCHANGED <<baseVars, pjVars, aoaVars, callVars>>

NestedNext == NestedForLoopComparison

SpecNested == NestedInit /\ [][NestedNext]_vars

\* C2: for a single-difference map of size n and each PRN p in it, failCount(p)
\* is the number of other PRNs q with |diff(p) - diff(q)| < the compare
\* threshold, and the vote appended for p is Unavailable when
\* n - 1 < minimumPRNCount - 1 (whatever the differences), otherwise Unassured
\* when failCount(p) / (n - 1) > the failure limit, otherwise Assured; the
\* votes of PRNs outside the map are left as they were.
FailPrns(d, p) ==
  {q \in DOMAIN d \ {p} : Abs(d[p] - d[q]) < singleDiffCompareThresh_}
ExpectedVote(d, p) ==
  LET n == Cardinality(DOMAIN d)
  IN  IF n - 1 < prnCountThresh_ - 1 THEN Unavailable
      ELSE IF n > 1 /\ Cardinality(FailPrns(d, p)) * ThreshDen
                         > singleDiffCompareFailureLimit_ * (n - 1)
        THEN Unassured
      ELSE Assured

NestedComparisonVotes ==
  out.op = "nestedForLoopComparison" =>
    \A p \in Prns :
      out.cycle.votes[p] =
        IF p \in DOMAIN args.diffMap
          THEN args.votes[p] \o <<ExpectedVote(args.diffMap, p)>>
          ELSE args.votes[p]

\* C2 witness: a PRN whose every comparison fails is voted Unavailable because
\* the map is too small
NestedComparisonVotesWitness ==
  /\ out.op = "nestedForLoopComparison"
  /\ \E p \in DOMAIN args.diffMap :
       /\ Cardinality(DOMAIN args.diffMap) >= 2
       /\ FailPrns(args.diffMap, p) = DOMAIN args.diffMap \ {p}
       /\ singleDiffCompareFailureLimit_ < ThreshDen
       /\ out.cycle.votes[p][Len(out.cycle.votes[p])] = Unavailable

(***************************************************************************)
(* The evaluation cycle of AngleOfArrivalCheck.                            *)
(*                                                                         *)
(* A repository entry holds the local snapshot, localData (hasObs: whether *)
(* getData yields observables), and the remote snapshots, remoteData, in   *)
(* the iteration order of the std::map, each with the node's observables   *)
(* (none when getData fails) and its measured range.                       *)
(***************************************************************************)
\* std::round of a time that is not negative, in ticks
Round(time) ==
  ((2 * time + TicksPerSec) \div (2 * TicksPerSec)) * TicksPerSec

\* the gate on the remote node's measured range
rangeGate(range) ==
  (~range.rangeValid) \/ ((range.range >= rangeThreshold_) /\ range.rangeValid)

\* the loop over the local observables for one remote node: the votes seeded
seedVotesAnyValidity(votes, localObs) ==
  [p \in Prns |->
     IF p \in DOMAIN localObs.observables
       THEN Append(votes[p], localObs.observables[p].assurance)
       ELSE votes[p]]

seedVotes(votes, localObs) ==
  [p \in Prns |->
     IF p \in DOMAIN localObs.observables
          /\ localObs.observables[p].pseudorangeValid
       THEN Append(votes[p], localObs.observables[p].assurance)
       ELSE votes[p]]

\* the loop over the local observables for one remote node: singleDiffMap
singleDiffsAnyMode(localObs, remoteObs, range) ==
  [p \in {q \in DOMAIN localObs.observables :
            /\ rangeGate(range)
            /\ q \in DOMAIN remoteObs.observables
            /\ localObs.observables[q].pseudorangeValid
            /\ remoteObs.observables[q].pseudorangeValid} |->
     localObs.observables[p].pseudorange - remoteObs.observables[p].pseudorange]

singleDiffs(localObs, remoteObs, range) ==
  [p \in {q \in DOMAIN localObs.observables :
            /\ rangeGate(range)
            /\ aoaCheckData_ = "UsePseudorange"
            /\ q \in DOMAIN remoteObs.observables
            /\ localObs.observables[q].pseudorangeValid
            /\ remoteObs.observables[q].pseudorangeValid} |->
     localObs.observables[p].pseudorange - remoteObs.observables[p].pseudorange]

\* the loop over the local observables for one remote node: errors logged
errorsLogged(localObs, range) ==
  IF rangeGate(range) /\ aoaCheckData_ \in {"UseCarrierPhase", "UseBoth"}
    THEN Cardinality(DOMAIN localObs.observables)
    ELSE 0

\* a remote node the loop passes over
skipNode(localObs, remoteObs) ==
  \/ Cardinality(DOMAIN remoteObs.observables) < 1
  \/ remoteObs.deviceId = localObs.deviceId

\* the loop over the remote nodes left, from the votes, sink calls and errors
\* so far; returned: the function returned from inside the loop
RECURSIVE remoteLoop(_, _, _, _)
remoteLoop(checkTime, localObs, nodes, acc) ==
  IF nodes = <<>> THEN acc
  ELSE
    LET node == Head(nodes)
    IN  IF skipNode(localObs, node.obs)
          THEN IF Len(nodes) = 1
                 THEN [acc EXCEPT !.returned = TRUE]
                 ELSE remoteLoop(checkTime, localObs, Tail(nodes), acc)
          ELSE
            LET singleDiffMap == singleDiffs(localObs, node.obs, node.range)
            IN  remoteLoop(checkTime, localObs, Tail(nodes),
                  [votes |-> nestedForLoopComparison(singleDiffMap,
                               seedVotes(acc.votes, localObs)),
                   sink |-> IF publishSingleDiffData_
                              THEN Append(acc.sink,
                                     [time |-> checkTime, node |-> node.id,
                                      singleDiffMap |-> singleDiffMap])
                              ELSE acc.sink,
                   errors |-> acc.errors + errorsLogged(localObs, node.range),
                   returned |-> FALSE])

\* the staleness test at the head of checkAngleOfArrival
stale(checkTime) == checkTime - lastAssuranceUpdate_ > assuranceLevelPeriod_

\* what a cycle that returns early leaves
abortedChangingLevel(checkTime, levels, stage, reset, acc) ==
  [levels |-> levels,
   change |-> changeAssuranceLevel(checkTime, Unavailable),
   diagnostics |-> NoDiag, stage |-> stage, reset |-> reset,
   votes |-> acc.votes, sink |-> acc.sink, errors |-> acc.errors]

abortedUnavailableOnReset(checkTime, levels, stage, reset, acc) ==
  [levels |-> levels,
   change |-> IF reset THEN changeAssuranceLevel(checkTime, Unavailable)
                       ELSE [level |-> assuranceLevel,
                             time |-> lastAssuranceUpdate_],
   diagnostics |-> NoDiag, stage |-> stage, reset |-> reset,
   votes |-> acc.votes, sink |-> acc.sink, errors |-> acc.errors]

aborted(checkTime, levels, stage, reset, acc) ==
  [levels |-> levels,
   change |-> [level |-> assuranceLevel, time |-> lastAssuranceUpdate_],
   diagnostics |-> NoDiag, stage |-> stage, reset |-> reset,
   votes |-> acc.votes, sink |-> acc.sink, errors |-> acc.errors]

\* checkAngleOfArrival(checkTime, localEntry, remoteEntries): the per-PRN map
\* and the level it leaves, and what it publishes
checkAngleOfArrival(checkTime, localEntry, remoteEntries) ==
  LET reset == stale(checkTime)
      levels == IF reset THEN <<>> ELSE prnAssuranceLevels_
      none == [votes |-> NoVotes, sink |-> <<>>, errors |-> 0,
               returned |-> FALSE]
  IN
  IF ~localEntry.hasObs
    THEN aborted(checkTime, levels, "noLocal", reset, none)
  ELSE IF Cardinality(DOMAIN localEntry.obs.observables) < prnCountThresh_
    THEN aborted(checkTime, levels, "fewLocal", reset, none)
  ELSE IF remoteEntries = <<>>
    THEN aborted(checkTime, levels, "noRemote", reset, none)
  ELSE
    LET acc == remoteLoop(checkTime, localEntry.obs, remoteEntries, none)
    IN  IF acc.returned
          THEN aborted(checkTime, levels, "lastSkipped", reset, acc)
          ELSE
            LET newLevels == setPrnAssuranceLevels(levels, acc.votes)
                r == calculateAssuranceLevel(newLevels, checkTime)
            IN  [levels |-> newLevels,
                 change |-> r.change,
                 diagnostics |->
                   IF publishDiagnostics_
                     THEN <<[time |-> checkTime,
                             diagnostics |-> r.diagnostics]>>
                     ELSE NoDiag,
                 stage |-> "done", reset |-> reset,
                 votes |-> acc.votes, sink |-> acc.sink,
                 errors |-> acc.errors]

\* handleGnssObservables(gnssObs, time), to its call of runCheck()
WriteEpoch(t, gnssObs, time) ==
  /\ pc[t] = "idle"
  /\ LET epoch == IF time # 0 THEN time
                  ELSE Round(ToTime(gnssObs.header))
     IN  /\ curGnssObsTimeOfWeek_' = epoch
         /\ callArg' = [callArg EXCEPT ![t] = epoch]
  /\ pc' = [pc EXCEPT ![t] = "runCheck"]
  /\ out' = Out("curGnssObsTimeOfWeek_", t, TRUE, NoDiag)
  /\ UNCHANGED <<baseVars, pjVars, aoaConfigVars, prnAssuranceLevels_,
                 lastDiffPublishTime_, lastDiagPublishTime_, args>>

\* what a step of runCheck() was given and did: the entry found or not, the
\* local snapshot retrievable or not and its size, the epoch looked up, the
\* place checkAngleOfArrival returned from, the map cleared or not, and the
\* PRNs that received a vote
Cycle(found, entry, key, stage, reset, voted) ==
  [found |-> found,
   hasObs |-> entry.localData.hasObs,
   localSize |-> Cardinality(DOMAIN entry.localData.obs.observables),
   key |-> key, stage |-> stage, reset |-> reset, voted |-> voted]

\* handleGnssObservables(gnssObs, time), its call of runCheck(); the
\* repository has the entry for the key (found) or has none
RunCheckAoa(t, found, entry) ==
  /\ pc[t] = "runCheck"
  /\ IF found
       THEN
         \E checkTime \in {curGnssObsTimeOfWeek_} :
         \E r \in {checkAngleOfArrival(checkTime, entry.localData,
                                       entry.remoteData)} :
             /\ prnAssuranceLevels_' = r.levels
             /\ assuranceLevel' = r.change.level
             /\ lastAssuranceUpdate_' = r.change.time
             /\ lastDiffPublishTime_' =
                  IF r.sink # <<>> THEN checkTime ELSE lastDiffPublishTime_
             /\ lastDiagPublishTime_' =
                  IF r.diagnostics # NoDiag THEN checkTime
                                            ELSE lastDiagPublishTime_
             /\ out' = OutOf("runCheck", t, TRUE, r.diagnostics,
                             Cycle(TRUE, entry, checkTime, r.stage, r.reset,
                                   VoteKeys(r.votes)))
       ELSE
         /\ out' = OutOf("runCheck", t, FALSE, NoDiag,
                         Cycle(FALSE, entry, curGnssObsTimeOfWeek_, "noEntry",
                               FALSE, {}))
         /\ UNCHANGED <<prnAssuranceLevels_, assuranceLevel,
                        lastAssuranceUpdate_, lastDiffPublishTime_,
                        lastDiagPublishTime_>>
  /\ pc' = [pc EXCEPT ![t] = "idle"]
  /\ UNCHANGED <<lastKnownGoodSet_, lastKnownGoodPosition_,
                 lastKnownGoodPositionTime_, publishDiagnostics_, pjVars,
                 aoaConfigVars, curGnssObsTimeOfWeek_, args, callArg>>

(***************************************************************************)
(* The snapshots the repository hands out.                                 *)
(***************************************************************************)
CyclePrns == 1..MaxCyclePrn
LocalObservables ==
  {[pseudorange |-> 10, pseudorangeValid |-> TRUE, assurance |-> Assured],
   [pseudorange |-> 14, pseudorangeValid |-> TRUE, assurance |-> Inconsistent]}
RemoteObservables ==
  {[pseudorange |-> 10, pseudorangeValid |-> TRUE],
   [pseudorange |-> 13, pseudorangeValid |-> TRUE]}
LocalMaps == UNION {[S -> LocalObservables] : S \in SUBSET CyclePrns}
NoRange == [rangeValid |-> FALSE, range |-> 0]
NoObs == [deviceId |-> "", observables |-> <<>>]
LocalEntries ==
  {[hasObs |-> FALSE, obs |-> NoObs]}
    \cup {[hasObs |-> TRUE, obs |-> [deviceId |-> "local", observables |-> m]] :
            m \in LocalMaps}
\* a node with no observables, the local device itself, and two other nodes
RemoteNodes ==
  {[obs |-> NoObs, range |-> NoRange],
   [obs |-> [deviceId |-> "local",
             observables |-> [p \in CyclePrns |-> [pseudorange |-> 10,
                                                  pseudorangeValid |-> TRUE]]],
    range |-> NoRange],
   [obs |-> [deviceId |-> "remote",
             observables |-> [p \in CyclePrns |-> [pseudorange |-> 10,
                                                  pseudorangeValid |-> TRUE]]],
    range |-> NoRange],
   [obs |-> [deviceId |-> "remote",
             observables |-> [p \in {1} |-> [pseudorange |-> 13,
                                            pseudorangeValid |-> TRUE]]],
    range |-> NoRange]}
\* up to two remote nodes, keyed 1 and 2
WithId(node, id) == [id |-> id, obs |-> node.obs, range |-> node.range]
RemoteEntries ==
  {<<>>} \cup {<<WithId(a, 1)>> : a \in RemoteNodes}
         \cup {<<WithId(a, 1), WithId(b, 2)>> : a, b \in RemoteNodes}
Entries == [localData : LocalEntries, remoteData : RemoteEntries]
NoEntry == [localData |-> [hasObs |-> FALSE, obs |-> NoObs], remoteData |-> <<>>]

\* the arguments of handleGnssObservables: a header and an explicit time
GnssObservables == [header : Timestamps]
ExplicitTimes == {0, 3, 4 * TicksPerSec + 1}

AoaInit ==
  /\ AoaConstructed
  /\ prnAssuranceLevels_ = <<>>
  /\ prnCountThresh_ \in {1, 2}
  /\ publishDiagnostics_ \in BOOLEAN
  /\ assuranceLevelPeriod_ = 2 * TicksPerSec
  /\ aoaCheckData_ = "UsePseudorange"
  /\ rangeThreshold_ = 5
  /\ singleDiffCompareThresh_ = 2
  /\ singleDiffCompareFailureLimit_ = ThreshDen \div 2
  /\ assuranceUnassuredThresh_ = ThreshDen - 1
  /\ assuranceInconsistentThresh_ = ThreshDen \div 2
  /\ assuranceAssuredThresh_ = ThreshDen \div 2
  /\ publishSingleDiffData_ = TRUE
  /\ args = <<>>

\* one caller at a time
AoaNext ==
  \/ \E gnssObs \in GnssObservables, time \in ExplicitTimes :
       WriteEpoch(1, gnssObs, time)
  \/ \E entry \in Entries : RunCheckAoa(1, TRUE, entry)
  \/ RunCheckAoa(1, FALSE, NoEntry)

SpecAoa == AoaInit /\ [][AoaNext]_vars

\* C7: after a cycle whose staleness test cleared the per-PRN map, the map
\* holds exactly the PRNs that received a vote in that cycle
StalenessResetExactlyVoted ==
  (out.op = "runCheck" /\ out.cycle.reset) =>
    DOMAIN prnAssuranceLevels_ = out.cycle.voted

ReturnsWhetherEvaluated ==
  out.op = "runCheck" =>
    /\ ~out.cycle.found => ~out.ret
    /\ out.ret => out.cycle.stage = "done"

(***************************************************************************)
(* Two callers of handleGnssObservables.                                   *)
(***************************************************************************)
ConcurrentTimes == {3, 4 * TicksPerSec + 1}
ConcurrentEntries ==
  {e \in Entries :
     /\ e.localData.hasObs
     /\ DOMAIN e.localData.obs.observables = CyclePrns
     /\ \A p \in CyclePrns : e.localData.obs.observables[p].assurance = Assured
     /\ Len(e.remoteData) = 1
     /\ e.remoteData[1].obs.deviceId = "remote"}

AoaConcurrentNext ==
  \/ \E t \in Threads, gnssObs \in GnssObservables, time \in ConcurrentTimes :
       WriteEpoch(t, gnssObs, time)
  \/ \E t \in Threads, entry \in ConcurrentEntries : RunCheckAoa(t, TRUE, entry)
  \/ \E t \in Threads : RunCheckAoa(t, FALSE, NoEntry)

SpecAoaConcurrent == AoaInit /\ [][AoaConcurrentNext]_vars

\* C6: each call of handleGnssObservables evaluates the repository entry for
\* the epoch derived from its own arguments
EachCallEvaluatesOwnEpoch ==
  out.op = "runCheck" => out.cycle.key = callArg[out.thread]

(***************************************************************************)
(* Further properties of PositionJumpCheck.                                *)
(***************************************************************************)

\* C11: in estimated-PV mode with an estimated reference set, runCheck uses
\* the bound max(minimumBound, stdDevMultiplier * sqrt(varNorth + varEast))
\* and the horizontal distance from the estimated position to the receiver
\* position, and sets Inconsistent when the distance exceeds the bound and
\* the receiver's horizontal standard deviation exceeds 30, Unassured when
\* the distance exceeds the bound and the standard deviation is at most 30,
\* and Assured otherwise, so also when the distance equals the bound.
EstimatedJump ==
  calculateDistance(lastReceiverPv_.position, currentEstimatedPosition_)
EstimatedBound ==
  Max(minimumBound_,
      posStdDevMultiplier_
        * Sqrt(currentEstPosCovariance_[1][1] + currentEstPosCovariance_[2][2]))
ReceiverStdDev ==
  Sqrt(lastReceiverPv_.covariance[1][1] + lastReceiverPv_.covariance[2][2])

EstimatedPvClassification ==
  [][(out'.op = "runCheck" /\ useEstimatedPv_ /\ currentEstPositionSet_) =>
       /\ out'.ret = TRUE
       /\ positionJumpBound_' = EstimatedBound
       /\ (EstimatedJump > EstimatedBound /\ ReceiverStdDev > 30
             => assuranceLevel' = Inconsistent)
       /\ (EstimatedJump > EstimatedBound /\ ReceiverStdDev <= 30
             => assuranceLevel' = Unassured)
       /\ (EstimatedJump <= EstimatedBound => assuranceLevel' = Assured)]_vars

\* C11 witness: a cycle in estimated-PV mode whose jump of 20 equals the
\* bound, with a receiver standard deviation of 35, has set Assured
EstimatedPvClassificationWitness ==
  /\ out.op = "runCheck"
  /\ useEstimatedPv_ /\ currentEstPositionSet_
  /\ EstimatedJump = 20
  /\ positionJumpBound_ = 20
  /\ ReceiverStdDev = 35
  /\ assuranceLevel = Assured

(***************************************************************************)
(* checkAngleOfArrival on its own: one cycle on every entry of a family    *)
(* with up to three remote nodes, from every accumulated map of a small    *)
(* family, in every data-source mode.                                      *)
(***************************************************************************)
CycleObservables ==
  {[pseudorange |-> 10, pseudorangeValid |-> TRUE, assurance |-> Assured],
   [pseudorange |-> 14, pseudorangeValid |-> TRUE, assurance |-> Unassured],
   [pseudorange |-> 10, pseudorangeValid |-> FALSE, assurance |-> Inconsistent]}
CycleLocalEntries ==
  {[hasObs |-> FALSE, obs |-> NoObs]}
    \cup {[hasObs |-> TRUE,
           obs |-> [deviceId |-> "local", observables |-> m]] :
            m \in UNION {[S -> CycleObservables] : S \in SUBSET CyclePrns}}
ShortRange == [rangeValid |-> TRUE, range |-> 3]
LongRange == [rangeValid |-> TRUE, range |-> 7]
\* the observables of a remote node: the same pseudorange for every PRN
EvenObs ==
  [deviceId |-> "remote",
   observables |-> [p \in CyclePrns |-> [pseudorange |-> 10,
                                        pseudorangeValid |-> TRUE]]]
\* the observables of a remote node: pseudoranges 3 m apart from PRN to PRN
SpreadObs ==
  [deviceId |-> "remote",
   observables |-> [p \in CyclePrns |-> [pseudorange |-> 10 + 3 * (p - 1),
                                        pseudorangeValid |-> TRUE]]]
EmptyNode == [obs |-> NoObs, range |-> NoRange]
SelfNode ==
  [obs |-> [deviceId |-> "local", observables |-> EvenObs.observables],
   range |-> NoRange]
UsableNodes ==
  {[obs |-> EvenObs, range |-> NoRange],
   [obs |-> SpreadObs, range |-> NoRange],
   [obs |-> EvenObs, range |-> ShortRange],
   [obs |-> EvenObs, range |-> LongRange]}
CycleNodes == {EmptyNode, SelfNode} \cup UsableNodes
ThirdNodes ==
  {EmptyNode, [obs |-> EvenObs, range |-> NoRange],
   [obs |-> SpreadObs, range |-> NoRange]}
CycleRemoteEntries ==
  {<<>>} \cup {<<WithId(a, 1)>> : a \in CycleNodes}
         \cup {<<WithId(a, 1), WithId(b, 2)>> : a, b \in CycleNodes}
         \cup {<<WithId(a, 1), WithId(b, 2), WithId(c, 3)>> :
                 a, b, c \in ThirdNodes}
CycleEntries == [localData : CycleLocalEntries, remoteData : CycleRemoteEntries]
\* an epoch within the period of the last update, and one beyond it
CycleTimes == {TicksPerSec, 4 * TicksPerSec + 1}
\* the map accumulated by the cycles before: nothing, or a PRN that the
\* cycle's local snapshot does not hold
CycleMaps == {<<>>, [p \in {MaxPrn} |-> Unassured]}
CycleModes ==
  {<<"UsePseudorange", TRUE>>, <<"UsePseudorange", FALSE>>,
   <<"UseCarrierPhase", TRUE>>, <<"UseBoth", TRUE>>}

CycleInit ==
  /\ AoaConstructed
  /\ prnAssuranceLevels_ \in CycleMaps
  /\ prnCountThresh_ \in {1, 2}
  /\ publishDiagnostics_ = TRUE
  /\ assuranceLevelPeriod_ = 2 * TicksPerSec
  /\ \E m \in CycleModes : aoaCheckData_ = m[1] /\ publishSingleDiffData_ = m[2]
  /\ rangeThreshold_ = 5
  /\ singleDiffCompareThresh_ = 2
  /\ singleDiffCompareFailureLimit_ = ThreshDen \div 2
  /\ assuranceUnassuredThresh_ = ThreshDen - 1
  /\ assuranceInconsistentThresh_ = ThreshDen \div 2
  /\ assuranceAssuredThresh_ = ThreshDen \div 2
  /\ args \in [entry : CycleEntries, time : CycleTimes]

\* checkAngleOfArrival(checkTime, localEntry, remoteEntries) on the entry
CheckAngleOfArrival ==
  /\ out.op = "init"
  /\ \E r \in {checkAngleOfArrival(args.time, args.entry.localData,
                                   args.entry.remoteData)} :
       /\ prnAssuranceLevels_' = r.levels
       /\ assuranceLevel' = r.change.level
       /\ lastAssuranceUpdate_' = r.change.time
       /\ lastDiffPublishTime_' =
            IF r.sink # <<>> THEN args.time ELSE lastDiffPublishTime_
       /\ lastDiagPublishTime_' =
            IF r.diagnostics # NoDiag THEN args.time ELSE lastDiagPublishTime_
       /\ out' = OutOf("checkAngleOfArrival", 0, TRUE, r.diagnostics,
                       [stage |-> r.stage, reset |-> r.reset,
                        votes |-> r.votes, sink |-> r.sink,
                        errors |-> r.errors])
  /\ UNCHANGED <<lastKnownGoodSet_, lastKnownGoodPosition_,
                 lastKnownGoodPositionTime_, publishDiagnostics_, pjVars,
                 aoaConfigVars, curGnssObsTimeOfWeek_, args, callVars>>

CycleNext == CheckAngleOfArrival

SpecCycle == CycleInit /\ [][CycleNext]_vars

\* C12: after a cycle that reduces its votes, every PRN with at least one
\* vote in the cycle's vote list has in the accumulated map the most
\* distrustful of its votes (Assured < Inconsistent < Unassured, Unavailable
\* below them); a PRN with an Unassured vote, from a nested comparison or
\* carried by the local observable, has Unassured.
Distrust(level) ==
  CASE level = Unavailable -> 0
    [] level = Assured -> 1
    [] level = Inconsistent -> 2
    [] level = Unassured -> 3
VotesOf(p) == {out.cycle.votes[p][i] : i \in 1..Len(out.cycle.votes[p])}

PerPrnReduction ==
  (out.op = "checkAngleOfArrival" /\ out.cycle.stage = "done") =>
    \A p \in Prns :
      out.cycle.votes[p] # <<>> =>
        /\ p \in DOMAIN prnAssuranceLevels_
        /\ prnAssuranceLevels_[p] \in VotesOf(p)
        /\ \A v \in VotesOf(p) : Distrust(v) <= Distrust(prnAssuranceLevels_[p])
        /\ (Unassured \in VotesOf(p) => prnAssuranceLevels_[p] = Unassured)

\* C12 witness: a PRN whose local observable carries Assured and which a
\* node's nested comparison votes Unassured is recorded Unassured
PerPrnReductionWitness ==
  /\ out.op = "checkAngleOfArrival" /\ out.cycle.stage = "done"
  /\ \E p \in DOMAIN args.entry.localData.obs.observables :
       /\ args.entry.localData.obs.observables[p].assurance = Assured
       /\ Assured \in VotesOf(p) /\ Unassured \in VotesOf(p)
       /\ prnAssuranceLevels_[p] = Unassured

\* C13: for a single-difference map of size n >= 2, the inner loop of the
\* nested comparison skips the PRN itself and so makes exactly n - 1
\* comparisons for each PRN, failCount is at most n - 1 and failPercent lies
\* in [0, 1], and exactly one vote is appended for each PRN of the map and
\* none for any other PRN: n votes in all.
NestedComparisonCounts ==
  (out.op = "nestedForLoopComparison"
     /\ Cardinality(DOMAIN args.diffMap) >= 2) =>
    LET n == Cardinality(DOMAIN args.diffMap)
    IN  /\ DOMAIN out.cycle.counts = DOMAIN args.diffMap
        /\ \A p \in DOMAIN args.diffMap :
             /\ out.cycle.counts[p].totalCount = n - 1
             /\ out.cycle.counts[p].failCount >= 0
             /\ out.cycle.counts[p].failCount <= n - 1
             /\ out.cycle.counts[p].failCount <= out.cycle.counts[p].totalCount
             /\ Len(out.cycle.votes[p]) = Len(args.votes[p]) + 1
        /\ \A p \in Prns \ DOMAIN args.diffMap :
             Len(out.cycle.votes[p]) = Len(args.votes[p])

\* C13 witness: a map of MaxPrn PRNs in which one PRN fails each of its
\* MaxPrn - 1 comparisons and another fails only one
NestedComparisonCountsWitness ==
  /\ out.op = "nestedForLoopComparison"
  /\ Cardinality(DOMAIN args.diffMap) = MaxPrn
  /\ \E p, q \in DOMAIN args.diffMap :
       /\ out.cycle.counts[p].failCount = MaxPrn - 1
       /\ out.cycle.counts[q].failCount = 1

(***************************************************************************)
(* The decision of calculateAssuranceLevel on two sets of counts with the  *)
(* same total, under every threshold setting.                              *)
(***************************************************************************)
Counts ==
  {c \in [totalCount : 0..MaxPrn, assuredCount : 0..MaxPrn,
          unavailableCount : 0..MaxPrn, suspectCount : 0..MaxPrn] :
     c.totalCount = c.assuredCount + c.unavailableCount + c.suspectCount}

MonotoneInit ==
  /\ AoaConstructed
  /\ args \in {a \in [first : Counts, second : Counts] :
                 a.first.totalCount = a.second.totalCount}
  /\ prnCountThresh_ \in 1..MaxPrn
  /\ assuranceUnassuredThresh_ \in Fractions
  /\ assuranceInconsistentThresh_ \in Fractions
  /\ assuranceAssuredThresh_ \in Fractions
  /\ prnAssuranceLevels_ = <<>>
  /\ publishDiagnostics_ = FALSE
  /\ assuranceLevelPeriod_ = 0
  /\ aoaCheckData_ = "UsePseudorange"
  /\ rangeThreshold_ = 0
  /\ singleDiffCompareThresh_ = 0
  /\ singleDiffCompareFailureLimit_ = 0
  /\ publishSingleDiffData_ = FALSE

\* the decision chain of calculateAssuranceLevel on each of the two
LevelFromCounts ==
  /\ out.op = "init"
  /\ out' = OutOf("levelFromCounts", 0, TRUE, NoDiag,
                  [first |-> levelFromCounts(args.first),
                   second |-> levelFromCounts(args.second)])
  /\ UNCHANGED <<baseVars, pjVars, aoaVars, callVars>>

MonotoneNext == LevelFromCounts

SpecMonotone == MonotoneInit /\ [][MonotoneNext]_vars

\* C14: for fixed thresholds and a fixed total PRN count that passes the
\* minimum-count gate, a suspect fraction that is at least as large never
\* gives a less distrustful level (Assured < Inconsistent < Unassured):
\* Unassured stays Unassured, Inconsistent becomes Inconsistent or Unassured,
\* and neither turns into Assured or Unavailable.
MoreDistrustful(a, b) ==
  \/ a = Inconsistent /\ b = Assured
  \/ a = Unassured /\ b \in {Assured, Inconsistent}

MonotonicInSuspectFraction ==
  (/\ out.op = "levelFromCounts"
   /\ args.first.totalCount >= prnCountThresh_ - 1
   /\ args.first.suspectCount <= args.second.suspectCount) =>
    /\ ~MoreDistrustful(out.cycle.first, out.cycle.second)
    /\ out.cycle.first = Unassured => out.cycle.second = Unassured
    /\ out.cycle.first = Inconsistent =>
         out.cycle.second \in {Inconsistent, Unassured}

\* C14 witness: with the same thresholds and total, the smaller suspect
\* fraction gives Inconsistent and the larger one Unassured
MonotonicInSuspectFractionWitness ==
  /\ out.op = "levelFromCounts"
  /\ args.first.totalCount >= prnCountThresh_ - 1
  /\ args.first.suspectCount < args.second.suspectCount
  /\ out.cycle.first = Inconsistent
  /\ out.cycle.second = Unassured

\* C15: setLastGoodPosition records the reference position and time, resets
\* the accumulated distance traveled to zero and, in distance-traveled mode,
\* resets the bound to the configured minimum; in the other two modes it
\* leaves the bound as it was, and in every mode it leaves the assurance
\* level (and its decision time) as it was.
SetLastGoodPositionFrame ==
  [][out'.op = "setLastGoodPosition" =>
       /\ lastKnownGoodSet_'
       /\ lastKnownGoodPosition_' = out'.cycle.position
       /\ lastKnownGoodPositionTime_' = out'.cycle.updateTime
       /\ distanceTraveled_' = 0
       /\ positionJumpBound_' =
            IF useDistTraveled_ THEN minimumBound_ ELSE positionJumpBound_
       /\ assuranceLevel' = assuranceLevel
       /\ lastAssuranceUpdate_' = lastAssuranceUpdate_]_vars

\* C15 witness: in distance-traveled mode, after distance has been received
\* (so the bound was above the minimum) and a cycle has set Unassured, a new
\* reference has put the bound back to the minimum and the distance to zero
SetLastGoodPositionFrameWitness ==
  /\ out.op = "setLastGoodPosition"
  /\ useDistTraveled_
  /\ distanceTraveledReceived_
  /\ distanceTraveled_ = 0
  /\ positionJumpBound_ = minimumBound_
  /\ assuranceLevel = Unassured

\* C16: updateBound() called while the check is not in distance-traveled
\* mode, and updateBound(time) called while it is, log an error and leave
\* the bound and every other field of the check as they were.
MisconfiguredUpdateBound ==
  [][(\/ out'.op = "updateBound" /\ ~useDistTraveled_
      \/ out'.op = "updateBoundTime" /\ useDistTraveled_) =>
       /\ out'.cycle.error
       /\ UNCHANGED <<baseVars, pjVars, callVars>>]_vars

\* C16 witness: updateBound() has been called in platform mode with an
\* accumulated distance above the bound, and the bound is still below it
MisconfiguredUpdateBoundWitness ==
  /\ out.op = "updateBound"
  /\ out.cycle.error
  /\ Platform
  /\ distanceTraveled_ > positionJumpBound_

\* C17: handlePositionVelocity with the local flag false returns true, does
\* not record the supplied solution, runs no evaluation cycle, publishes no
\* diagnostics, and leaves the assurance level, its decision time, the bound
\* and every other field as they were.
NonLocalIgnored ==
  [][out'.op = "handlePositionVelocity" =>
       /\ out'.ret = TRUE
       /\ out'.diag = NoDiag
       /\ lastReceiverPv_' = lastReceiverPv_
       /\ assuranceLevel' = assuranceLevel
       /\ lastAssuranceUpdate_' = lastAssuranceUpdate_
       /\ positionJumpBound_' = positionJumpBound_
       /\ pc' = pc
       /\ UNCHANGED <<baseVars, pjVars>>]_vars

\* C17 witness: after a cycle has set Unassured, a non-local solution that
\* differs from the recorded one has been supplied and is not the recorded one
NonLocalIgnoredWitness ==
  /\ out.op = "handlePositionVelocity"
  /\ out.cycle.posVel # lastReceiverPv_
  /\ assuranceLevel = Unassured

\* C18: handleEstimatedPositionVelocity captures the estimated position, its
\* 3x3 covariance and the NED reference origin together, in one step, exactly
\* when the check is in estimated-PV mode and the supplied covariance is not
\* degenerate (its determinant is not zero); in every other case it changes
\* none of the three, nor the level, its decision time or the bound; and no
\* other operation changes any of the three.
Det(c) ==
  c[1][1] * (c[2][2] * c[3][3] - c[2][3] * c[3][2])
    - c[1][2] * (c[2][1] * c[3][3] - c[2][3] * c[3][1])
    + c[1][3] * (c[2][1] * c[3][2] - c[2][2] * c[3][1])
Degenerate(c) == Det(c) = 0

EstimatedCapture ==
  [][/\ out'.op = "handleEstimatedPositionVelocity" =>
          /\ IF useEstimatedPv_ /\ ~Degenerate(out'.cycle.pv.covariance)
               THEN /\ currentEstPositionSet_'
                    /\ currentEstimatedPosition_' = out'.cycle.pv.position
                    /\ currentEstPosCovariance_' = out'.cycle.pv.covariance
                    /\ geodeticConverter_' = out'.cycle.pv.position
               ELSE UNCHANGED pjEstVars
          /\ UNCHANGED <<assuranceLevel, lastAssuranceUpdate_,
                         positionJumpBound_>>
     /\ out'.op # "handleEstimatedPositionVelocity" =>
          UNCHANGED pjEstVars]_vars

\* C19: every cycle of PositionJumpCheck (runCheck) applies one level
\* transition, stamped with the whole seconds of the receiver solution, and,
\* if a diagnostics sink is configured, publishes diagnostics exactly once
\* (and never without a sink): the bound and the distance when a decision
\* was made, NaN for both when the level set is Unavailable; and it returns
\* false if and only if the level it set is Unavailable.
CycleDistance ==
  IF useEstimatedPv_
    THEN EstimatedJump
    ELSE calculateDistance(lastReceiverPv_.position, lastKnownGoodPosition_)

DiagnosticsEveryCycle ==
  [][out'.op = "runCheck" =>
       /\ assuranceLevel' \in Levels
       /\ lastAssuranceUpdate_' = lastReceiverPv_.header.sec * TicksPerSec
       /\ (out'.ret = FALSE) <=> (assuranceLevel' = Unavailable)
       /\ Len(out'.diag) = IF publishDiagnostics_ THEN 1 ELSE 0
       /\ publishDiagnostics_ =>
            /\ out'.diag[1].time = ToTime(lastReceiverPv_.header)
            /\ IF assuranceLevel' = Unavailable
                 THEN /\ out'.diag[1].diagnostics.bound.nan
                      /\ out'.diag[1].diagnostics.distance.nan
                 ELSE /\ out'.diag[1].diagnostics.bound =
                           Num(positionJumpBound_')
                      /\ out'.diag[1].diagnostics.distance =
                           Num(CycleDistance)]_vars

\* C19 witness: in distance-traveled mode with a reference set and no
\* distance received, a cycle with a sink configured has set Unavailable,
\* returned false and published NaN for both
DiagnosticsEveryCycleWitness ==
  /\ out.op = "runCheck"
  /\ useDistTraveled_ /\ lastKnownGoodSet_ /\ ~distanceTraveledReceived_
  /\ publishDiagnostics_
  /\ ~out.ret
  /\ assuranceLevel = Unavailable
  /\ Len(out.diag) = 1
  /\ out.diag[1].diagnostics.bound.nan
  /\ out.diag[1].diagnostics.distance.nan

\* C20: the epoch key that a call of handleGnssObservables passes to the
\* repository lookup is a whole number of seconds, whether the time argument
\* is explicit (non-zero) or the epoch is derived from the header.
EpochKeyWholeSeconds ==
  out.op = "runCheck" => out.cycle.key % TicksPerSec = 0

(***************************************************************************)
(* Properties of one cycle, stated on the entry the cycle was given.       *)
(***************************************************************************)
LocalObs == args.entry.localData.obs.observables
RemoteNodesOf == args.entry.remoteData
NodeIndices == 1..Len(RemoteNodesOf)
\* the cycle went into the loop over the remote nodes
InLoop ==
  /\ out.op = "checkAngleOfArrival"
  /\ out.cycle.stage \in {"done", "lastSkipped"}
\* node i has an empty snapshot or the device id of the local snapshot
Skipped(i) ==
  \/ DOMAIN RemoteNodesOf[i].obs.observables = {}
  \/ RemoteNodesOf[i].obs.deviceId = args.entry.localData.obs.deviceId
\* node i has a valid measured range below the range threshold
Gated(i) ==
  /\ RemoteNodesOf[i].range.rangeValid
  /\ RemoteNodesOf[i].range.range < rangeThreshold_
LocallyValid(p) == p \in DOMAIN LocalObs /\ LocalObs[p].pseudorangeValid
\* the mode and the data allow a single difference for PRN p against node i
Comparable(i, p) ==
  /\ ~Skipped(i) /\ ~Gated(i)
  /\ aoaCheckData_ = "UsePseudorange"
  /\ LocallyValid(p)
  /\ p \in DOMAIN RemoteNodesOf[i].obs.observables
  /\ RemoteNodesOf[i].obs.observables[p].pseudorangeValid

\* C21: with the carrier-phase or the combined mode selected, a cycle logs
\* one error for each local observable of each remote node that is neither
\* skipped nor gated by its range, hands only empty single-difference maps
\* to the sink, and its vote list holds no vote of a nested comparison: the
\* votes of a PRN are the levels carried by its local observable.
UnimplementedMode ==
  (InLoop /\ aoaCheckData_ \in {"UseCarrierPhase", "UseBoth"}) =>
    /\ out.cycle.errors =
         Cardinality(DOMAIN LocalObs)
           * Cardinality({i \in NodeIndices : ~Skipped(i) /\ ~Gated(i)})
    /\ \A k \in 1..Len(out.cycle.sink) :
         DOMAIN out.cycle.sink[k].singleDiffMap = {}
    /\ \A p \in Prns :
         /\ Len(out.cycle.votes[p]) =
              IF LocallyValid(p)
                THEN Cardinality({i \in NodeIndices : ~Skipped(i)})
                ELSE 0
         /\ \A k \in 1..Len(out.cycle.votes[p]) :
              out.cycle.votes[p][k] = LocalObs[p].assurance

\* C21 witness: a cycle in carrier-phase mode over two usable nodes, one of
\* them gated by its range, with two local observables: two errors, and
\* votes in the list
UnimplementedModeWitness ==
  /\ InLoop /\ out.cycle.stage = "done"
  /\ aoaCheckData_ = "UseCarrierPhase"
  /\ Len(RemoteNodesOf) = 2
  /\ \E i, j \in NodeIndices : ~Skipped(i) /\ Gated(i) /\ ~Skipped(j) /\ ~Gated(j)
  /\ out.cycle.errors = 2
  /\ \E p \in Prns : Len(out.cycle.votes[p]) = 2


\* the single-difference map the cycle computes against node i
ExpectedDiffMap(i) ==
  [p \in {q \in Prns : Comparable(i, q)} |->
     LocalObs[p].pseudorange - RemoteNodesOf[i].obs.observables[p].pseudorange]

\* C22: with the sink enabled a cycle that runs to its aggregate
\* classification has invoked the sink exactly once for each remote node of
\* the epoch, in turn, with the check time, the node id and the node's
\* single-difference map; with the sink disabled it never invokes it.
SinkOncePerNode ==
  (out.op = "checkAngleOfArrival" /\ out.cycle.stage = "done") =>
    IF publishSingleDiffData_
      THEN /\ Len(out.cycle.sink) = Len(RemoteNodesOf)
           /\ \A i \in NodeIndices :
                /\ out.cycle.sink[i].time = args.time
                /\ out.cycle.sink[i].node = RemoteNodesOf[i].id
                /\ out.cycle.sink[i].singleDiffMap = ExpectedDiffMap(i)
      ELSE out.cycle.sink = <<>>


\* C23 (as stated): a PRN has votes in the cycle's vote map only if a single
\* difference was computed for it against some remote node's matching
\* observable.
VotedOnlyIfDifferenced ==
  InLoop =>
    \A p \in Prns :
      out.cycle.votes[p] # <<>> => \E i \in NodeIndices : Comparable(i, p)

\* C23 (amended): a PRN has votes in the cycle's vote map only if its local
\* pseudorange is valid and the cycle went through the loop over the local
\* observables for at least one remote node that was not skipped.
VotedOnlyIfIterated ==
  (out.op = "checkAngleOfArrival") =>
    \A p \in Prns :
      out.cycle.votes[p] # <<>> =>
        /\ InLoop
        /\ LocallyValid(p)
        /\ \E i \in NodeIndices : ~Skipped(i)

\* C23 witness: a cycle that ran to its classification with a PRN that has
\* a vote although no single difference was computed for it against any node
VotedOnlyIfIteratedWitness ==
  /\ InLoop /\ out.cycle.stage = "done"
  /\ aoaCheckData_ = "UsePseudorange"
  /\ \E p \in Prns :
       /\ out.cycle.votes[p] # <<>>
       /\ \A i \in NodeIndices : ~Comparable(i, p)


\* C24: every remote node of a cycle that runs to its classification, a
\* skipped one included, seeds one vote with the carried level for each
\* locally valid PRN, and only the nodes compared add one more: a PRN's
\* vote list has one vote per remote node plus one per single difference.
SkippedNodeSeeds ==
  (out.op = "checkAngleOfArrival" /\ out.cycle.stage = "done") =>
    \A p \in Prns :
      Len(out.cycle.votes[p]) =
        (IF LocallyValid(p) THEN Len(RemoteNodesOf) ELSE 0)
          + Cardinality({i \in NodeIndices : Comparable(i, p)})


\* C25: a cycle that runs to its classification without a staleness reset
\* leaves every PRN of the accumulated map that received no vote in the map
\* with the level it had, and classifies over the whole map, these PRNs
\* included.
AccumulatedMapPersists ==
  [][(/\ out'.op = "runCheck"
      /\ out'.cycle.stage = "done"
      /\ ~out'.cycle.reset)
       => /\ \A p \in DOMAIN prnAssuranceLevels_ \ out'.cycle.voted :
               /\ p \in DOMAIN prnAssuranceLevels_'
               /\ prnAssuranceLevels_'[p] = prnAssuranceLevels_[p]
          /\ assuranceLevel' = ExpectedLevel']_vars

\* C25 witness: after such a cycle the map holds an Inconsistent PRN that
\* received no vote, every PRN voted on is Assured, and the level set is not
\* Assured
AccumulatedMapPersistsWitness ==
  /\ out.op = "runCheck"
  /\ out.cycle.stage = "done"
  /\ ~out.cycle.reset
  /\ out.cycle.voted # {}
  /\ \A q \in out.cycle.voted : prnAssuranceLevels_[q] = Assured
  /\ \E p \in DOMAIN prnAssuranceLevels_ \ out.cycle.voted :
       prnAssuranceLevels_[p] = Inconsistent
  /\ assuranceLevel \in {Inconsistent, Unassured}


SkipOrderIndependent ==
  (InLoop /\ \E i \in NodeIndices : ~Skipped(i)) =>
    out.cycle.stage = "done"

=============================================================================
